---- MODULE Spec2Model ----
(***************************************************************************)
(* A model of summarize.py (darshmgandhi/Research-Summarizer).             *)
(*                                                                         *)
(* Text is modelled as a sequence of tokens (TLA+ strings), one token per  *)
(* character or per indivisible word of the text, so that the regular      *)
(* expressions, str.replace, str.lower and the substring test of the code  *)
(* act on the text as they do in Python.                                   *)
(*                                                                         *)
(* The module holds one specification per component:                       *)
(*   FetchSpec   fetch_url                       (lines 21-31)             *)
(*   MatchSpec   find_best_matching_university   (lines 34-35, 141-159)    *)
(*   ScoreSpec   the same, one institution and longer texts                *)
(*   LinksSpec   extract_gs_result_links         (lines 38-89)             *)
(*   LoadSpec    load_js_object                  (lines 162-177)           *)
(*   FilterSpec  extract_professors_from_profBySchool (lines 198-214)      *)
(*   Spec        main                            (lines 235-313)           *)
(*   FairSpec    main, every started run going on to its end               *)
(* A variable that a specification does not use keeps the value Idle.      *)
(***************************************************************************)
EXTENDS Integers, Sequences, FiniteSets, TLC

VARIABLES
    \* fetch_url
    retries, backoff, attempt, f_pc, f_outcomes, f_sleeps, f_result,
    \* find_best_matching_university
    universities, univ_query, scored, m_result,
    \* extract_gs_result_links
    html, links, verification, l_pc,
    \* load_js_object
    js_value, js_code, var_name, js_result,
    \* extract_professors_from_profBySchool
    prof_by_school, matched_name, p_result,
    \* main: the position (pc, prof_i, url_j), the exception that left main,
    \* the locals query, matched_university and professors, the requests
    \* made (fetch_log), the warnings printed, the file system (dirs, fs),
    \* the documents written (saved) and whether professors.json is written
    pc, prof_i, url_j, error, query, matched_university, professors,
    fetch_log, warnings, dirs, fs, saved, json_written

fetchVars == <<retries, backoff, attempt, f_pc, f_outcomes, f_sleeps, f_result>>
matchVars == <<universities, univ_query, scored, m_result>>
linkVars == <<html, links, verification, l_pc>>
loadVars == <<js_value, js_code, var_name, js_result>>
filterVars == <<prof_by_school, matched_name, p_result>>
mainVars == <<pc, prof_i, url_j, error, query, matched_university, professors,
              fetch_log, warnings, dirs, fs, saved, json_written>>
vars == <<fetchVars, matchVars, linkVars, loadVars, filterVars, mainVars>>

Idle == "idle"
\* Python's None where a text is expected: a text no input holds.
None == <<"None">>
\* Python's None where a number is expected.
NoTotal == 0 - 1

FetchIdle ==
    /\ retries = Idle /\ backoff = Idle /\ attempt = Idle /\ f_pc = Idle
    /\ f_outcomes = Idle /\ f_sleeps = Idle /\ f_result = Idle
MatchIdle ==
    /\ universities = Idle /\ univ_query = Idle /\ scored = Idle /\ m_result = Idle
LinksIdle ==
    /\ html = Idle /\ links = Idle /\ verification = Idle /\ l_pc = Idle
LoadIdle ==
    /\ js_value = Idle /\ js_code = Idle /\ var_name = Idle /\ js_result = Idle
FilterIdle ==
    /\ prof_by_school = Idle /\ matched_name = Idle /\ p_result = Idle
MainIdle ==
    /\ pc = Idle /\ prof_i = Idle /\ url_j = Idle /\ error = Idle /\ query = Idle
    /\ matched_university = Idle /\ professors = Idle /\ fetch_log = Idle
    /\ warnings = Idle /\ dirs = Idle /\ fs = Idle /\ saved = Idle
    /\ json_written = Idle

(***************************************************************************)
(* Text helpers                                                            *)
(***************************************************************************)
\* All token sequences over alphabet `abc` of length lo..hi.
SeqsOf(abc, lo, hi) == UNION {[1..n -> abc] : n \in lo..hi}

Min(x, y) == IF x <= y THEN x ELSE y

\* str.startswith / the `in` operator on str.
StartsWithAt(s, p, i) ==
    /\ i + Len(p) <= Len(s)
    /\ \A k \in 1..Len(p) : s[i + k] = p[k]
Contains(s, p) == \E i \in 0..Len(s) : StartsWithAt(s, p, i)

\* str.lower, on the letters of the model's alphabets.
LowerChar(c) ==
    CASE c = "A" -> "a"
      [] c = "B" -> "b"
      [] c = "AI" -> "ai"
      [] c = "Vision" -> "vision"
      [] OTHER -> c
Lower(s) == [k \in 1..Len(s) |-> LowerChar(s[k])]

(***************************************************************************)
(* fetch_url (lines 21-31)                                                 *)
(***************************************************************************)
\* Bounds of the inputs of fetch_url.
MaxRetries == 3
MaxBackoff == 2

\* What one requests.get + raise_for_status can do: return a response text or
\* raise an exception (lines 24-25).
Texts == {"page1", "page2"}
RequestErrors == {"Timeout", "HTTPError"}
RequestOutcomes ==
    [ok : {TRUE}, val : Texts] \cup [ok : {FALSE}, val : RequestErrors]

\* time.sleep(backoff * (attempt + 1)), line 30.
SleepTime(b, k) == b * (k + 1)

\* `if attempt == retries` (line 28): the failure is the last one.
IsLastAttemptMut(k, r) == k = r + 1
IsLastAttempt(k, r) == k = r

FetchInit ==
    /\ retries \in 0..MaxRetries
    /\ backoff \in 1..MaxBackoff
    /\ attempt = 0
    /\ f_pc = "loop"
    /\ f_outcomes = << >>
    /\ f_sleeps = << >>
    /\ f_result = << >>
    /\ MatchIdle /\ LinksIdle /\ LoadIdle /\ FilterIdle /\ MainIdle

\* One iteration of `for attempt in range(retries + 1)` (lines 22-30), or the
\* statement after the loop (line 31) once the range is exhausted.
FetchAttempt ==
    /\ f_pc = "loop"
    /\ IF attempt < retries + 1
       THEN \E o \in RequestOutcomes :
              /\ f_outcomes' = Append(f_outcomes, o)
              /\ IF o.ok
                 THEN /\ f_pc' = "returned"
                      /\ f_result' = <<"return", o.val>>
                      /\ UNCHANGED <<attempt, f_sleeps>>
                 ELSE IF IsLastAttempt(attempt, retries)
                 THEN /\ f_pc' = "raised"
                      /\ f_result' = <<"raise", o.val, attempt>>
                      /\ UNCHANGED <<attempt, f_sleeps>>
                 ELSE /\ f_sleeps' = Append(f_sleeps, SleepTime(backoff, attempt))
                      /\ attempt' = attempt + 1
                      /\ UNCHANGED <<f_pc, f_result>>
       ELSE /\ f_pc' = "raised"
            /\ f_result' = <<"raise", "RuntimeError", attempt>>
            /\ UNCHANGED <<attempt, f_outcomes, f_sleeps>>
    /\ UNCHANGED <<retries, backoff>>
    /\ UNCHANGED <<matchVars, linkVars, loadVars, filterVars, mainVars>>

FetchNext == FetchAttempt

FetchSpec == FetchInit /\ [][FetchNext]_vars

\* C1: fetch_url makes at most retries+1 requests; it returns the text of the
\* first successful request and makes no request after it; when all retries+1
\* requests fail it raises the failure of the last one (never the RuntimeError
\* of line 31, never a silent return); after failed attempt k < retries it
\* sleeps backoff*(k+1), and it does not sleep after the final failure.
FetchFailures == {k \in DOMAIN f_outcomes : ~f_outcomes[k].ok}
FetchBounded ==
    /\ Len(f_outcomes) <= retries + 1
    /\ \A k \in DOMAIN f_outcomes : f_outcomes[k].ok => k = Len(f_outcomes)
    /\ f_pc = "returned" =>
         /\ Len(f_outcomes) >= 1
         /\ f_outcomes[Len(f_outcomes)].ok
         /\ f_result = <<"return", f_outcomes[Len(f_outcomes)].val>>
    /\ f_pc = "raised" =>
         /\ Len(f_outcomes) = retries + 1
         /\ FetchFailures = DOMAIN f_outcomes
         /\ f_result = <<"raise", f_outcomes[retries + 1].val, retries>>
    /\ f_pc = "loop" => FetchFailures = DOMAIN f_outcomes /\ attempt = Len(f_outcomes)
    /\ f_pc \in {"loop", "returned", "raised"}
    /\ f_sleeps = [k \in 1..(IF f_pc = "raised" THEN retries
                             ELSE Cardinality(FetchFailures)) |-> backoff * k]

FetchExhausted ==
    /\ f_pc = "raised"
    /\ retries >= 2
    /\ Len(f_sleeps) = retries
FetchRecovered ==
    /\ f_pc = "returned"
    /\ Len(f_outcomes) >= 2
    /\ Len(f_sleeps) = Len(f_outcomes) - 1
FetchWitness == FetchExhausted \/ FetchRecovered

(***************************************************************************)
(* text_similarity (lines 34-35): difflib.SequenceMatcher(None, a, b)      *)
(* .ratio() with no junk (the autojunk heuristic needs len(b) >= 200).     *)
(***************************************************************************)
\* The length of the longest common run of a from i and b from j (0-based),
\* inside a[..ahi) and b[..bhi).
RECURSIVE RunLen(_, _, _, _, _, _)
RunLen(a, b, i, j, ahi, bhi) ==
    IF i < ahi /\ j < bhi /\ a[i + 1] = b[j + 1]
    THEN 1 + RunLen(a, b, i + 1, j + 1, ahi, bhi)
    ELSE 0

\* SequenceMatcher.find_longest_match(alo, ahi, blo, bhi): the longest block
\* a[i:i+k] = b[j:j+k]; of the longest, the one starting earliest in a, and of
\* those the one starting earliest in b; (alo, blo, 0) when nothing matches.
FindLongestMatch(a, b, alo, ahi, blo, bhi) ==
    LET starts == (alo..(ahi - 1)) \X (blo..(bhi - 1))
        len == [p \in starts |-> RunLen(a, b, p[1], p[2], ahi, bhi)]
        longest == {p \in starts : \A q \in starts : len[q] <= len[p]}
        best == CHOOSE p \in longest :
                  \A q \in longest :
                     p[1] < q[1] \/ (p[1] = q[1] /\ p[2] <= q[2])
    IN  IF starts = {} \/ len[best] = 0
        THEN [i |-> alo, j |-> blo, k |-> 0]
        ELSE [i |-> best[1], j |-> best[2], k |-> len[best]]

\* The sum of the sizes of SequenceMatcher.get_matching_blocks(): the longest
\* block, then the blocks to its left and to its right.
RECURSIVE MatchingSize(_, _, _, _, _, _)
MatchingSize(a, b, alo, ahi, blo, bhi) ==
    LET m == FindLongestMatch(a, b, alo, ahi, blo, bhi)
    IN  IF m.k = 0 THEN 0
        ELSE m.k
             + (IF alo < m.i /\ blo < m.j
                THEN MatchingSize(a, b, alo, m.i, blo, m.j) ELSE 0)
             + (IF m.i + m.k < ahi /\ m.j + m.k < bhi
                THEN MatchingSize(a, b, m.i + m.k, ahi, m.j + m.k, bhi) ELSE 0)

\* A score is the fraction <<n, d>>, d > 0, standing for the float n/d.
ScoreLess(x, y) == x[1] * y[2] < y[1] * x[2]
ScoreEq(x, y) == x[1] * y[2] = y[1] * x[2]
\* max(x, y) of Python: the first of the two unless the second is greater.
ScoreMax(x, y) == IF ScoreLess(x, y) THEN y ELSE x

\* SequenceMatcher.ratio(): 2.0 * matches / (len(a) + len(b)), and 1.0 for
\* two empty texts.
Ratio(a, b) ==
    IF Len(a) + Len(b) = 0 THEN <<1, 1>>
    ELSE <<2 * MatchingSize(a, b, 0, Len(a), 0, Len(b)), Len(a) + Len(b)>>

text_similarity(a, b) == Ratio(Lower(a), Lower(b))

(***************************************************************************)
(* find_best_matching_university (lines 141-159)                           *)
(***************************************************************************)
\* Bounds of the table and of the texts.
MaxUniversities == 2
MaxNameLen == 1
MaxQueryLen == 2
\* Bounds of the texts when one institution is scored (ScoreSpec).
MaxScoreNameLen == 3
MaxScoreQueryLen == 3

NameChars == {"a", "A", "b"}
\* An institution name is never empty (line 128).
Names == SeqsOf(NameChars, 1, MaxNameLen)
Queries == SeqsOf(NameChars, 0, MaxQueryLen)
\* The rows of the table in document order; the id of a row is its tr id.
RowId(k) == <<"row", k>>
Tables(n) == [1..n -> Names]
UniversitiesOf(t) == [k \in 1..Len(t) |-> [id |-> RowId(k), name |-> t[k]]]

\* 0.95 (line 150) and 0.4 (line 156).
SubstringFloor == <<19, 20>>
MatchThreshold == <<2, 5>>

\* Lines 148-150: the score of one institution.
ScoreOfMut(name, q) == text_similarity(name, q)
ScoreOf(name, q) ==
    LET score == text_similarity(name, q)
    IN  IF Contains(Lower(name), Lower(q))
        THEN ScoreMax(score, SubstringFloor)
        ELSE score

\* Lines 145-151: scored, in input order.
Scored(us, q) ==
    [k \in 1..Len(us) |->
        [score |-> ScoreOf(us[k].name, q), name |-> us[k].name, id |-> us[k].id]]

\* list.sort(reverse=True, key=score) (line 153): a stable sort, descending;
\* entries of equal score keep their order.  Insert x behind every entry whose
\* score is not less than its own.
InsertDescMut(sorted, x) ==
    LET n == Cardinality({k \in DOMAIN sorted : ScoreLess(x.score, sorted[k].score)})
    IN  SubSeq(sorted, 1, n) \o <<x>> \o SubSeq(sorted, n + 1, Len(sorted))
InsertDesc(sorted, x) ==
    LET n == Cardinality({k \in DOMAIN sorted : ~ScoreLess(sorted[k].score, x.score)})
    IN  SubSeq(sorted, 1, n) \o <<x>> \o SubSeq(sorted, n + 1, Len(sorted))
RECURSIVE SortDesc(_)
SortDesc(s) ==
    IF s = << >> THEN << >>
    ELSE InsertDesc(SortDesc(SubSeq(s, 1, Len(s) - 1)), s[Len(s)])

\* Lines 142-159: the result (matched_name, matched_id).
BestOf(sorted) ==
    IF sorted = << >> THEN <<None, None>>
    ELSE IF ScoreLess(sorted[1].score, MatchThreshold) THEN <<None, None>>
    ELSE <<sorted[1].name, sorted[1].id>>

MatchInit ==
    /\ univ_query \in Queries
    /\ \E n \in 0..MaxUniversities : \E t \in Tables(n) : universities = UniversitiesOf(t)
    /\ scored = << >>
    /\ m_result = << >>
    /\ FetchIdle /\ LinksIdle /\ LoadIdle /\ FilterIdle /\ MainIdle

find_best_matching_university ==
    /\ m_result = << >>
    /\ scored' = SortDesc(Scored(universities, univ_query))
    /\ m_result' = BestOf(scored')
    /\ UNCHANGED <<universities, univ_query>>
    /\ UNCHANGED <<fetchVars, linkVars, loadVars, filterVars, mainVars>>

MatchNext == find_best_matching_university

MatchSpec == MatchInit /\ [][MatchNext]_vars

\* The matcher on a table of one institution, with longer texts.
ScoreInit ==
    /\ univ_query \in SeqsOf(NameChars, 0, MaxScoreQueryLen)
    /\ universities \in {UniversitiesOf(<<n>>) : n \in SeqsOf(NameChars, 1, MaxScoreNameLen)}
    /\ scored = << >>
    /\ m_result = << >>
    /\ FetchIdle /\ LinksIdle /\ LoadIdle /\ FilterIdle /\ MainIdle

ScoreSpec == ScoreInit /\ [][MatchNext]_vars

\* C4: the matcher returns (None, None) when the list is empty or every score
\* is below 0.4; otherwise it returns the name and id of a candidate of
\* maximal score, and of several such the first in input order.
ScoresInOrder ==
    [k \in DOMAIN universities |-> ScoreOf(universities[k].name, univ_query)]
MatcherPicksFirstBest ==
    m_result # << >> =>
      LET sc == ScoresInOrder
          isTop(k) == /\ \A j \in DOMAIN sc : ~ScoreLess(sc[k], sc[j])
                      /\ \A j \in 1..(k - 1) : ScoreLess(sc[j], sc[k])
      IN  IF \A k \in DOMAIN sc : ScoreLess(sc[k], MatchThreshold)
          THEN m_result = <<None, None>>
          ELSE \E k \in DOMAIN sc :
                  /\ isTop(k)
                  /\ m_result = <<universities[k].name, universities[k].id>>
\* Two candidates tie at the top and the first is returned.
MatcherTieWitness ==
    /\ m_result # << >>
    /\ Len(universities) = 2
    /\ universities[1].name # universities[2].name
    /\ ScoreEq(ScoreOf(universities[1].name, univ_query),
               ScoreOf(universities[2].name, univ_query))
    /\ m_result = <<universities[1].name, universities[1].id>>

\* C5: every score the matcher assigns is in [0,1]; it is at least 0.95 when
\* the query is a case-insensitive substring of the name (the empty query
\* included); the floor only raises: the score is never below the similarity
\* ratio, and equals it when the query is no substring of the name.
ScoreInRange ==
    \A k \in DOMAIN scored :
       LET e == scored[k]
           r == text_similarity(e.name, univ_query)
       IN  /\ r[2] > 0 /\ e.score[2] > 0
           /\ 0 <= e.score[1] /\ e.score[1] <= e.score[2]
           /\ Contains(Lower(e.name), Lower(univ_query))
                => ~ScoreLess(e.score, SubstringFloor)
           /\ ~ScoreLess(e.score, r)
           /\ ScoreLess(SubstringFloor, r) => ScoreEq(e.score, r)
           /\ ~Contains(Lower(e.name), Lower(univ_query)) => ScoreEq(e.score, r)
\* A query that is a substring of the name only when case is ignored, whose
\* ratio was below 0.95 and was raised to 0.95.
ScoreFloorWitness ==
    \E k \in DOMAIN scored :
       /\ ~Contains(scored[k].name, univ_query)
       /\ Contains(Lower(scored[k].name), Lower(univ_query))
       /\ ScoreLess(text_similarity(scored[k].name, univ_query), SubstringFloor)
       /\ ScoreEq(scored[k].score, SubstringFloor)

(***************************************************************************)
(* extract_gs_result_links (lines 38-89)                                   *)
(*                                                                         *)
(* A results page is what the selectors of the code see of it: the blocks  *)
(* of the page in document order, each with whether it matches             *)
(* "#gs_res_ccl .gs_r.gs_or" and the href of its "h3.gs_rt a[href]" (None  *)
(* when it has no such anchor), and the text of the header element         *)
(* "#gs_ab_md .gs_ab_mdw" or "#gs_ab_md" (None when the page has neither). *)
(* A URL is a sequence of tokens: a scheme ("https:"), a network           *)
(* location ("/", "/", "host"), a path ("/", "p1"), or other text; " " is  *)
(* whitespace.                                                             *)
(***************************************************************************)
\* Bounds of the page.
MaxMixedBlocks == 1
MaxResultCards == 11
MaxDigits == 2

\* min(10, total_results), line 82.
ResultsPerPage == 10

SchemeTokens == {"https:"}
PathName(k) == "p" \o ToString(k)
\* str.startswith("/") on a URL.
StartsWithSlash(href) == href # << >> /\ href[1] = "/"
\* The URL has a scheme: requests can fetch it.
IsAbsolute(href) == href # << >> /\ href[1] \in SchemeTokens

\* base_url, line 38.
ScholarBase == <<"https:", "/", "/", "scholar.google.com">>

\* str.strip(): leading and trailing whitespace removed.
RECURSIVE LStrip(_)
LStrip(s) == IF s # << >> /\ s[1] = " " THEN LStrip(Tail(s)) ELSE s
RECURSIVE RStrip(_)
RStrip(s) ==
    IF s # << >> /\ s[Len(s)] = " " THEN RStrip(SubSeq(s, 1, Len(s) - 1)) ELSE s
Strip(s) == RStrip(LStrip(s))

\* requests.compat.urljoin(base, href) for an href that starts with "/": a
\* network-path reference (two slashes, a host, a path) takes the scheme of the base, an
\* absolute path takes its scheme and network location.
UrlJoin(base, href) ==
    IF Len(href) >= 2 /\ href[2] = "/" THEN <<base[1]>> \o href
    ELSE SubSeq(base, 1, 4) \o href

\* Lines 63-66.
Normalize(href) == IF StartsWithSlash(href) THEN UrlJoin(ScholarBase, href) ELSE href

\* Lines 56-67: the links of the blocks, in document order.
RECURSIVE LinksOf(_)
LinksOf(blocks) ==
    IF blocks = << >> THEN << >>
    ELSE LET card == blocks[1]
             rest == LinksOf(Tail(blocks))
         IN  IF ~card.result THEN rest                   \* not selected, line 56
             ELSE IF card.href = None THEN rest          \* line 58
             ELSE IF Strip(card.href) = << >> THEN rest  \* line 61
             ELSE <<Normalize(Strip(card.href))>> \o rest

\* re.search(r"([\d,]+)\s+results?", text, re.I), line 74: group 1 of the
\* leftmost match, None without a match.  A run of digits and commas matches
\* from its first character when whitespace and then "result" follow it.
DigitTokens == {"0", "1", "7"}
IsCount(t) == t \in DigitTokens \cup {","}
IsResultsWord(t) == t \in {"results", "result", "Results"}
RECURSIVE SpanWhile(_, _, _)
\* The first position from i (1-based) on whose token fails test; Len(s)+1 if none.
SpanWhile(s, i, isCount) ==
    IF i <= Len(s) /\ (IF isCount THEN IsCount(s[i]) ELSE s[i] = " ")
    THEN SpanWhile(s, i + 1, isCount) ELSE i
HeaderMatchAt(s, i) ==
    LET e == SpanWhile(s, i, TRUE)
        w == SpanWhile(s, e, FALSE)
    IN  e > i /\ w > e /\ w <= Len(s) /\ IsResultsWord(s[w])
HeaderGroup(s) ==
    IF \E i \in 1..Len(s) : HeaderMatchAt(s, i)
    THEN LET i == CHOOSE i \in 1..Len(s) :
                    HeaderMatchAt(s, i) /\ \A j \in 1..(i - 1) : ~HeaderMatchAt(s, j)
         IN  SubSeq(s, i, SpanWhile(s, i, TRUE) - 1)
    ELSE None

\* int(m.group(1).replace(",", "")), lines 76-79: None (NoTotal) on the
\* ValueError of an empty text.
DigitValue(t) == IF t = "0" THEN 0 ELSE IF t = "1" THEN 1 ELSE 7
RECURSIVE IntOf(_)
IntOf(digits) ==
    IF digits = << >> THEN 0
    ELSE 10 * IntOf(SubSeq(digits, 1, Len(digits) - 1)) + DigitValue(digits[Len(digits)])
TotalResults(header) ==
    IF header = None THEN NoTotal
    ELSE LET g == HeaderGroup(header)
         IN  IF g = None THEN NoTotal
             ELSE LET digits == SelectSeq(g, LAMBDA t : t # ",")
                  IN  IF digits = << >> THEN NoTotal ELSE IntOf(digits)

\* Lines 81-88: what is printed.
ExpectedMut(total) == total
Expected(total) == Min(ResultsPerPage, total)
Verification(total, n) ==
    IF total # NoTotal
    THEN IF Expected(total) = n THEN "Verified" ELSE "ERROR: expected"
    ELSE "ERROR: Could not find total results"

\* The pages: an empty text, or up to MaxMixedBlocks blocks of any kind
\* followed by up to MaxResultCards well-formed result cards, with a header.
EmptyHtml == [blocks |-> << >>, header |-> None, empty |-> TRUE]
MixedBlocks ==
    { [result |-> FALSE, href |-> <<"https:", "/", "/", "host", "/", "p0">>],
      [result |-> TRUE, href |-> None],
      [result |-> TRUE, href |-> <<" ">>],
      [result |-> TRUE, href |-> <<" ", "/", "p0", " ">>],
      [result |-> TRUE, href |-> <<"/", "/", "host", "/", "p0">>],
      [result |-> TRUE, href |-> <<"citations">>] }
ResultCard(k) == [result |-> TRUE, href |-> <<"https:", "/", "/", "host", "/", PathName(k)>>]
Headers ==
    {None} \cup
    { lead \o run \o word :
        lead \in {<< >>, <<"7", " ">>},
        run \in SeqsOf({"0", "1", ","}, 0, MaxDigits),
        word \in {<<" ", "results">>, <<"results">>, <<" ", "Results">>, <<" ", "pages">>} }
Page(mixed, n, h) ==
    [blocks |-> mixed \o [k \in 1..n |-> ResultCard(k)], header |-> h, empty |-> FALSE]

LinksInit ==
    /\ \E mixed \in SeqsOf(MixedBlocks, 0, MaxMixedBlocks), n \in 0..MaxResultCards,
          h \in Headers :
           html \in {EmptyHtml, Page(mixed, n, h)}
    /\ links = << >>
    /\ verification = None
    /\ l_pc = "call"
    /\ FetchIdle /\ MatchIdle /\ LoadIdle /\ FilterIdle /\ MainIdle

extract_gs_result_links ==
    /\ l_pc = "call"
    /\ l_pc' = "returned"
    /\ IF html.empty                                   \* lines 49-50
       THEN links' = << >> /\ verification' = None
       ELSE /\ links' = LinksOf(html.blocks)
            /\ verification' = <<Verification(TotalResults(html.header), Len(links'))>>
    /\ UNCHANGED html
    /\ UNCHANGED <<fetchVars, matchVars, loadVars, filterVars, mainVars>>

LinksNext == extract_gs_result_links

LinksSpec == LinksInit /\ [][LinksNext]_vars

\* C6: the verification reports success exactly when the header reports N
\* results and the number of extracted links is min(10, N); in every outcome
\* the call returns, and returns one link per selected card with a non-blank
\* title href, in document order, every href that begins with "/" resolved
\* to an absolute URL against the base.
HasLink(card) == card.result /\ card.href # None /\ Strip(card.href) # << >>
LinksVerified ==
    l_pc # "call" =>
      LET cards == SelectSeq(html.blocks, HasLink)
          total == TotalResults(html.header)
      IN  /\ l_pc = "returned"
          /\ ~html.empty =>
               (verification = <<"Verified">>
                  <=> (total # NoTotal /\ Len(links) = Min(10, total)))
          /\ Len(links) = Len(cards)
          /\ \A k \in DOMAIN cards :
               LET href == Strip(cards[k].href)
               IN  IF StartsWithSlash(href)
                   THEN /\ IsAbsolute(links[k])
                        /\ SubSeq(links[k], Len(links[k]) - Len(href) + 1, Len(links[k])) = href
                        /\ ~StartsWithSlash(links[k])
                   ELSE links[k] = href
\* 11 results reported and 10 links extracted, one of them from a relative
\* href: verified against the cap of 10.
LinksCapWitness ==
    /\ l_pc = "returned"
    /\ TotalResults(html.header) = 11
    /\ Len(links) = 10
    /\ verification = <<"Verified">>
    /\ \E k \in DOMAIN html.blocks : HasLink(html.blocks[k]) /\ StartsWithSlash(Strip(html.blocks[k].href))

(***************************************************************************)
(* load_js_object (lines 162-177)                                          *)
(*                                                                         *)
(* The script is a sequence of tokens: the words "let", "export", "null",  *)
(* identifiers and numbers, the punctuation of JSON, the double quote DQ,  *)
(* and " " for whitespace.  Two adjacent word tokens read as one word.     *)
(***************************************************************************)
DQ == "\""
Punctuation == {"=", ";", "{", "}", ":", ",", DQ, " "}
IsWord(t) == t \notin Punctuation

\* The least position of a set of positions.
First(positions) == CHOOSE k \in positions : \A m \in positions : k <= m
\* The first position from i on that holds no whitespace, Len(s) + 1 when
\* whitespace runs to the end.
SkipWs(s, i) ==
    LET stops == {k \in i..Len(s) : s[k] # " "}
    IN  IF i > Len(s) THEN i ELSE IF stops = {} THEN Len(s) + 1 ELSE First(stops)

\* rf"\blet\s+{var}\s*=\s*" (line 167) matched at position i of s: the
\* position after the match, 0 without a match.
DeclMatchEnd(s, i, var) ==
    IF /\ i <= Len(s) /\ s[i] = "let"
       /\ i > 1 => ~IsWord(s[i - 1])                      \* \b
       /\ i + 1 <= Len(s) /\ s[i + 1] = " "               \* \s+
    THEN LET v == SkipWs(s, i + 1)
             e == SkipWs(s, v + 1)
         IN  IF v <= Len(s) /\ s[v] = var /\ e <= Len(s) /\ s[e] = "="
             THEN SkipWs(s, e + 1) ELSE 0
    ELSE 0

\* rf"export\s*\{{\s*{var}\s*\}}\s*;" (line 171) matched at position i of s.
ExportMatchEnd(s, i, var) ==
    IF i <= Len(s) /\ s[i] = "export"
    THEN LET b == SkipWs(s, i + 1)
             v == SkipWs(s, b + 1)
             c == SkipWs(s, v + 1)
             e == SkipWs(s, c + 1)
         IN  IF /\ b <= Len(s) /\ s[b] = "{"
                /\ v <= Len(s) /\ s[v] = var
                /\ c <= Len(s) /\ s[c] = "}"
                /\ e <= Len(s) /\ s[e] = ";"
             THEN e + 1 ELSE 0
    ELSE 0

\* re.sub(pattern, "", s) from position i on: every match, left to right,
\* removed; the text up to the first match stays and the scan goes on after it.
RECURSIVE SubDecl(_, _, _)
SubDecl(s, i, var) ==
    LET starts == {k \in i..Len(s) : DeclMatchEnd(s, k, var) > 0}
    IN  IF starts = {} THEN SubSeq(s, i, Len(s))
        ELSE SubSeq(s, i, First(starts) - 1)
                 \o SubDecl(s, DeclMatchEnd(s, First(starts), var), var)
RECURSIVE SubExport(_, _, _)
SubExport(s, i, var) ==
    LET starts == {k \in i..Len(s) : ExportMatchEnd(s, k, var) > 0}
    IN  IF starts = {} THEN SubSeq(s, i, Len(s))
        ELSE SubSeq(s, i, First(starts) - 1)
                 \o SubExport(s, ExportMatchEnd(s, First(starts), var), var)

\* str.rstrip(";"), line 175.
RECURSIVE RStripSemi(_)
RStripSemi(s) ==
    IF s # << >> /\ s[Len(s)] = ";" THEN RStripSemi(SubSeq(s, 1, Len(s) - 1)) ELSE s

\* Lines 167-175: the text handed to json.loads.
StripJs(code, var) == RStripSemi(Strip(SubExport(SubDecl(code, 1, var), 1, var)))

\* A structured value is [t, v]: t its type ("num", "str", "null", "obj") and
\* v the tokens of a number or a string, or the <<key, value>> pairs of a
\* dict in insertion order.
NumV(digits) == [t |-> "num", v |-> digits]
StrV(chars) == [t |-> "str", v |-> chars]
NullV == [t |-> "null", v |-> << >>]
ObjV(pairs) == [t |-> "obj", v |-> pairs]
NumTokens == {"1"}

\* d[key] = val on a dict: a key already there keeps its place.
DictPut(pairs, key, val) ==
    IF \E k \in DOMAIN pairs : pairs[k][1] = key
    THEN [k \in DOMAIN pairs |-> IF pairs[k][1] = key THEN <<key, val>> ELSE pairs[k]]
    ELSE Append(pairs, <<key, val>>)
HasKey(pairs, key) == \E k \in DOMAIN pairs : pairs[k][1] = key
\* dict.get(key): NullV stands for None.
DictGet(pairs, key) ==
    IF HasKey(pairs, key)
    THEN pairs[CHOOSE k \in DOMAIN pairs : pairs[k][1] = key][2]
    ELSE NullV

\* json.loads on the tokens: numbers, strings (without escapes), null and
\* objects, whitespace allowed around every token.  A parse is
\* [ok, val, next]: next is the position after the value.
ParseFail == [ok |-> FALSE, val |-> NullV, next |-> 0]
\* The position of the closing quote of the string opened before i; 0 if none.
ClosingQuote(s, i) ==
    LET quotes == {k \in i..Len(s) : s[k] = DQ}
    IN  IF quotes = {} THEN 0 ELSE First(quotes)
ParseString(s, i) ==
    IF i <= Len(s) /\ s[i] = DQ /\ ClosingQuote(s, i + 1) > 0
    THEN LET c == ClosingQuote(s, i + 1)
         IN  [ok |-> TRUE, val |-> StrV(SubSeq(s, i + 1, c - 1)), next |-> c + 1]
    ELSE ParseFail
\* The position after the digits that start at i.
NumberEnd(s, i) ==
    LET stops == {k \in i..Len(s) : s[k] \notin NumTokens}
    IN  IF i > Len(s) THEN i ELSE IF stops = {} THEN Len(s) + 1 ELSE First(stops)
RECURSIVE ParseValue(_, _)
RECURSIVE ParseMembers(_, _, _)
ParseValue(s, i0) ==
    LET i == SkipWs(s, i0)
    IN  IF i > Len(s) THEN ParseFail
        ELSE IF s[i] \in NumTokens
        THEN LET e == NumberEnd(s, i)
             IN  [ok |-> TRUE, val |-> NumV(SubSeq(s, i, e - 1)), next |-> e]
        ELSE IF s[i] = "null" THEN [ok |-> TRUE, val |-> NullV, next |-> i + 1]
        ELSE IF s[i] = DQ THEN ParseString(s, i)
        ELSE IF s[i] = "{"
        THEN LET j == SkipWs(s, i + 1)
             IN  IF j <= Len(s) /\ s[j] = "}"
                 THEN [ok |-> TRUE, val |-> ObjV(<< >>), next |-> j + 1]
                 ELSE ParseMembers(s, j, << >>)
        ELSE ParseFail
ParseMembers(s, i, acc) ==
    LET key == ParseString(s, i)
        colon == SkipWs(s, key.next)
    IN  IF ~key.ok \/ colon > Len(s) \/ s[colon] # ":" THEN ParseFail
        ELSE LET val == ParseValue(s, colon + 1)
                 sep == SkipWs(s, val.next)
                 pairs == DictPut(acc, key.val.v, val.val)
             IN  IF ~val.ok \/ sep > Len(s) THEN ParseFail
                 ELSE IF s[sep] = "}" THEN [ok |-> TRUE, val |-> ObjV(pairs), next |-> sep + 1]
                 ELSE IF s[sep] = "," THEN ParseMembers(s, SkipWs(s, sep + 1), pairs)
                 ELSE ParseFail
\* json.loads(text): the value, or a JSONDecodeError.
JsonLoads(s) ==
    LET p == ParseValue(s, 1)
    IN  IF p.ok /\ SkipWs(s, p.next) > Len(s)
        THEN [ok |-> TRUE, val |-> p.val]
        ELSE [ok |-> FALSE, val |-> NullV]

load_js_object(code, var) == JsonLoads(StripJs(code, var))

\* json.dumps: the text of a value, used to write the inputs.
RECURSIVE JsonDumps(_)
RECURSIVE DumpPairs(_)
JsonDumps(val) ==
    IF val.t = "num" THEN val.v
    ELSE IF val.t = "null" THEN <<"null">>
    ELSE IF val.t = "str" THEN <<DQ>> \o val.v \o <<DQ>>
    ELSE <<"{">> \o DumpPairs(val.v) \o <<"}">>
DumpPairs(pairs) ==
    IF pairs = << >> THEN << >>
    ELSE <<DQ>> \o pairs[1][1] \o <<DQ, ":", " ">> \o JsonDumps(pairs[1][2])
         \o (IF Len(pairs) > 1 THEN <<",", " ">> \o DumpPairs(Tail(pairs)) ELSE << >>)

\* "let X = <v>;" and the same followed by "export { X };".
Declaration(var, val) == <<"let", " ", var, " ", "=", " ">> \o JsonDumps(val) \o <<";">>
ExportClause(var) == <<" ", "export", " ", "{", " ", var, " ", "}", ";">>

\* Bound of the length of a string value.
MaxStrLen == 4
StrChars == {"let", " ", "X", "=", "export", "{", "}", ";"}
VarNames == {"X", "profBySchool_normalized"}
\* The values written with the string c.
JsValues(c) == {NumV(<<"1">>), NullV, StrV(c), ObjV(<< <<<<"a">>, StrV(c)>> >>)}

LoadInit ==
    /\ var_name \in VarNames
    /\ \E c \in SeqsOf(StrChars, 0, MaxStrLen) : js_value \in JsValues(c)
    /\ js_code \in {Declaration(var_name, js_value),
                    Declaration(var_name, js_value) \o ExportClause(var_name)}
    /\ js_result = << >>
    /\ FetchIdle /\ MatchIdle /\ LinksIdle /\ FilterIdle /\ MainIdle

LoadJs ==
    /\ js_result = << >>
    /\ js_result' = <<load_js_object(js_code, var_name)>>
    /\ UNCHANGED <<js_value, js_code, var_name>>
    /\ UNCHANGED <<fetchVars, matchVars, linkVars, filterVars, mainVars>>

LoadNext == LoadJs

LoadSpec == LoadInit /\ [][LoadNext]_vars

\* C8: loading "let X = <v>;" yields v, and so does the same text followed by
\* "export { X };": text of the shape of the declaration or of the export
\* clause inside the payload is left unchanged.
LoaderRoundTrips ==
    js_result # << >> =>
       /\ js_result[1].ok
       /\ js_result[1].val.t = js_value.t
       /\ js_result[1].val = js_value

(***************************************************************************)
(* extract_professors_from_profBySchool (lines 198-214)                    *)
(***************************************************************************)
\* ALLOWED_SUBFIELDS, line 14.  A subfield tag is one token.
ALLOWED_SUBFIELDS == {<<"ai">>, <<"vision">>, <<"ir">>, <<"mlmining">>, <<"nlp">>}

\* The code point of a letter, for the order of str.
CharOrd(c) ==
    CASE c = "A" -> 65
      [] c = "B" -> 66
      [] c = "a" -> 97
      [] c = "b" -> 98
      [] OTHER -> 0
\* a < b on str.
RECURSIVE StrLess(_, _)
StrLess(a, b) ==
    IF b = << >> THEN FALSE
    ELSE IF a = << >> THEN TRUE
    ELSE IF CharOrd(a[1]) # CharOrd(b[1]) THEN CharOrd(a[1]) < CharOrd(b[1])
    ELSE StrLess(Tail(a), Tail(b))

\* Lines 205-210 for one entry: "AttributeError" when the entry is no dict or
\* its subfield is no str (None when the key is missing), else whether the
\* entry is kept.
SubfieldOf(prof_data) == DictGet(prof_data.v, <<"subfield">>)
EntryRaises(prof_data) ==
    \/ prof_data.t # "obj"
    \/ SubfieldOf(prof_data).t # "str"
EntryKept(prof_data) == Lower(SubfieldOf(prof_data).v) \in ALLOWED_SUBFIELDS
EntryRecord(prof_data) ==
    [name |-> DictGet(prof_data.v, <<"name">>),
     subfield |-> DictGet(prof_data.v, <<"subfield">>),
     gs |-> DictGet(prof_data.v, <<"google scholar">>)]

\* Lines 203-210: the records of the kept entries, in the order of the block.
RECURSIVE KeptRecords(_)
KeptRecords(pairs) ==
    IF pairs = << >> THEN << >>
    ELSE IF EntryKept(pairs[1][2])
    THEN <<EntryRecord(pairs[1][2])>> \o KeptRecords(Tail(pairs))
    ELSE KeptRecords(Tail(pairs))

\* list.sort(key=name), line 212: a stable sort, ascending.  Comparing two
\* names raises TypeError unless both are str or both are numbers.
SortRaises(records) ==
    /\ Len(records) >= 2
    /\ ~ \/ \A k \in DOMAIN records : records[k].name.t = "str"
         \/ \A k \in DOMAIN records : records[k].name.t = "num"
NameLess(x, y) == x.name.t = "str" /\ StrLess(x.name.v, y.name.v)
InsertAsc(sorted, x) ==
    LET n == Cardinality({k \in DOMAIN sorted : ~NameLess(x, sorted[k])})
    IN  SubSeq(sorted, 1, n) \o <<x>> \o SubSeq(sorted, n + 1, Len(sorted))
RECURSIVE SortAsc(_)
SortAsc(s) ==
    IF s = << >> THEN << >>
    ELSE InsertAsc(SortAsc(SubSeq(s, 1, Len(s) - 1)), s[Len(s)])

\* Lines 198-214: [raised, val]; raised is "" when the call returns val.
Returns(val) == [raised |-> "", val |-> val]
Raises(exc) == [raised |-> exc, val |-> << >>]
extract_professors(pbs, name) ==
    IF pbs.t = "str"
    THEN IF Contains(pbs.v, name) THEN Raises("TypeError") ELSE Returns(<< >>)
    ELSE IF pbs.t # "obj" THEN Raises("TypeError")
    ELSE IF ~HasKey(pbs.v, name) THEN Returns(<< >>)             \* lines 198-199
    ELSE LET university_block == DictGet(pbs.v, name)
         IN  IF university_block.t # "obj" THEN Raises("AttributeError")
             ELSE IF \E k \in DOMAIN university_block.v :
                        EntryRaises(university_block.v[k][2])
             THEN Raises("AttributeError")
             ELSE LET results == KeptRecords(university_block.v)
                  IN  IF SortRaises(results) THEN Raises("TypeError")
                      ELSE Returns(SortAsc(results))

\* Bounds of the block of an institution.
MaxProfessors == 3
MaxFacultyNameLen == 1
FacultyNames == SeqsOf({"A", "a", "b"}, 1, MaxFacultyNameLen)
\* The subfield of an entry: a tag, or << >> for an entry without the key.
SubfieldInputs == {<<"ai">>, <<"AI">>, <<"Vision">>, <<"theory">>, << >>}
ScholarUrl(k) == ScholarBase \o <<"/", "scholar", "?", "q=", PathName(k), "&", "as_ylo=">>
ProfData(name, subfield, url) ==
    ObjV(<< <<<<"name">>, StrV(name)>> >>
         \o (IF subfield = << >> THEN << >> ELSE << <<<<"subfield">>, StrV(subfield)>> >>)
         \o (IF url = << >> THEN << >> ELSE << <<<<"google scholar">>, StrV(url)>> >>))
\* The block of an institution: entry k has the k-th name and subfield.
Block(ns, ss) ==
    [k \in DOMAIN ns |-> <<<<"prof", ToString(k)>>, ProfData(ns[k], ss[k], ScholarUrl(k))>>]
SchoolName == <<"U">>

FilterInit ==
    /\ matched_name \in {SchoolName, <<"V">>}
    /\ \E n \in 0..MaxProfessors :
         \E ns \in [1..n -> FacultyNames], ss \in [1..n -> SubfieldInputs] :
             prof_by_school = ObjV(<< <<SchoolName, ObjV(Block(ns, ss))>> >>)
    /\ p_result = << >>
    /\ FetchIdle /\ MatchIdle /\ LinksIdle /\ LoadIdle /\ MainIdle

FilterProfessors ==
    /\ p_result = << >>
    /\ p_result' = <<extract_professors(prof_by_school, matched_name)>>
    /\ UNCHANGED <<prof_by_school, matched_name>>
    /\ UNCHANGED <<fetchVars, matchVars, linkVars, loadVars, mainVars>>

FilterNext == FilterProfessors

FilterSpec == FilterInit /\ [][FilterNext]_vars

\* C7: the filter returns exactly the entries of the institution's block
\* whose lowercased subfield tag is one of the five allowed tags, sorted
\* ascending by name; an entry that fails the check, an entry without a
\* subfield tag included, is left out without an error, and an institution
\* absent from the object yields the empty list.
AllowedEntry(prof_data) ==
    /\ HasKey(prof_data.v, <<"subfield">>)
    /\ Lower(DictGet(prof_data.v, <<"subfield">>).v) \in ALLOWED_SUBFIELDS
FilterExcludesSilently ==
    p_result # << >> =>
       LET r == p_result[1]
           block == IF HasKey(prof_by_school.v, matched_name)
                    THEN DictGet(prof_by_school.v, matched_name).v ELSE << >>
           allowed == SelectSeq(block, LAMBDA e : AllowedEntry(e[2]))
       IN  /\ r.raised = ""
           /\ Len(r.val) = Len(allowed)
           /\ \A k \in DOMAIN allowed :
                 Cardinality({j \in DOMAIN r.val : r.val[j] = EntryRecord(allowed[k][2])})
                   = Cardinality({j \in DOMAIN allowed : allowed[j][2] = allowed[k][2]})
           /\ \A k \in DOMAIN r.val : Lower(r.val[k].subfield.v) \in ALLOWED_SUBFIELDS
           /\ \A j, k \in DOMAIN r.val : j < k => ~StrLess(r.val[k].name.v, r.val[j].name.v)

(***************************************************************************)
(* _sanitize_filename (lines 217-226), _page_title_from_html (229-232)     *)
(***************************************************************************)
\* The characters of r'[<>:"/\\|?*]', line 222.
ForbiddenChars == {"<", ">", ":", DQ, "/", "\\", "|", "?", "*"}
\* Line 226.
MaxFileNameLen == 180

\* re.sub(r'[<>:"/\\|?*]+', "_", name): every run of forbidden characters
\* becomes one "_".
RECURSIVE ReplaceForbidden(_, _)
ReplaceForbidden(s, inRun) ==
    IF s = << >> THEN << >>
    ELSE IF s[1] \in ForbiddenChars
    THEN (IF inRun THEN << >> ELSE <<"_">>) \o ReplaceForbidden(Tail(s), TRUE)
    ELSE <<s[1]>> \o ReplaceForbidden(Tail(s), FALSE)
\* re.sub(r"\s+", " ", name).
RECURSIVE CollapseWs(_, _)
CollapseWs(s, inRun) ==
    IF s = << >> THEN << >>
    ELSE IF s[1] = " "
    THEN (IF inRun THEN << >> ELSE <<" ">>) \o CollapseWs(Tail(s), TRUE)
    ELSE <<s[1]>> \o CollapseWs(Tail(s), FALSE)
\* str.strip(".").
RECURSIVE StripDots(_)
StripDots(s) ==
    IF s # << >> /\ s[1] = "." THEN StripDots(Tail(s))
    ELSE IF s # << >> /\ s[Len(s)] = "." THEN StripDots(SubSeq(s, 1, Len(s) - 1))
    ELSE s
_sanitize_filename(name) ==
    IF name = None \/ name = << >> THEN <<"untitled">>
    ELSE LET n == StripDots(Strip(CollapseWs(ReplaceForbidden(name, FALSE), FALSE)))
         IN  IF Len(n) > MaxFileNameLen THEN SubSeq(n, 1, MaxFileNameLen) ELSE n

\* A fetched document is [title, body]: the text of its <title> (None when it
\* has none) and its whole text.
_page_title_from_html(doc) == IF doc.title = None THEN << >> ELSE Strip(doc.title)

\* parsed.netloc + parsed.path of an absolute URL (lines 297-298): what
\* follows "scheme://" up to the query or the fragment.
RECURSIVE UpToQuery(_)
UpToQuery(s) ==
    IF s = << >> \/ s[1] \in {"?", "#"} THEN << >> ELSE <<s[1]>> \o UpToQuery(Tail(s))
NetlocAndPath(url) == UpToQuery(SubSeq(url, 4, Len(url)))

\* Lines 294-300: the file of a document, inside the directory of line 284.
FileNameOf(url, doc) ==
    LET title == _page_title_from_html(doc)
    IN  _sanitize_filename(IF title = << >> THEN NetlocAndPath(url) ELSE title) \o <<".txt">>
ProfDirOf(uni_name, prof) ==
    _sanitize_filename(uni_name) \o <<"_">>
        \o _sanitize_filename(IF prof.name.t = "str" THEN prof.name.v ELSE None)

\* file_path.exists(), line 302.
FileExistsMut(files, path) == FALSE
FileExists(files, path) == path \in DOMAIN files

(***************************************************************************)
(* main (lines 235-313)                                                    *)
(*                                                                         *)
(* One step of the run is one call of fetch_url with what follows it up to *)
(* the next call.  fetch_log, warnings and saved record what the run did:  *)
(* the calls of fetch_url, the warnings printed, the files written.  fs is *)
(* the data directory: a function from paths to file contents.  A single   *)
(* run works on the directory; prof_dir.mkdir (line 285) and               *)
(* file_path.exists (line 302) are taken to return, and every name in the  *)
(* roster to be a str.                                                     *)
(***************************************************************************)
\* gs_url.replace("as_ylo=", "as_ylo=2025"), line 267.
RECURSIVE ReplaceYear(_)
ReplaceYear(url) ==
    IF url = << >> THEN << >>
    ELSE IF url[1] = "as_ylo=" THEN <<"as_ylo=", "2025">> \o ReplaceYear(Tail(url))
    ELSE <<url[1]>> \o ReplaceYear(Tail(url))
\* `if gs_url == gs_url_2025`, line 268.
UrlNotReplacedMut(gs_url, gs_url_2025) == FALSE
UrlNotReplaced(gs_url, gs_url_2025) == gs_url = gs_url_2025

\* Whether the exception of a failed fetch_url leaves main: the fetches of
\* lines 138, 191 and 270 stand outside any try; that of line 289 is inside
\* try/except/continue (lines 288-292).
PropagatesAlways(place) == TRUE
PropagatesNever(place) == FALSE
Propagates(place) == place # "doc"

BASE_URL == <<"https:", "/", "/", "drafty.cs.brown.edu", "/", "csopenrankings", "/">>
PROFBYSCHOOL_URL ==
    <<"https:", "/", "/", "drafty.cs.brown.edu", "/", "csopenrankings", "/",
      "frontend", "/", "profBySchool.js">>

\* The inputs of a run: the query, the table of the rankings page, the script
\* of the roster, the results pages, the documents, and the files an earlier
\* run left.
MainQueries == {<<"a">>}
MainTables == {<< >>, <<<<"b">>>>, <<<<"A">>>>, <<<<"b">>, <<"a">>>>}
BadUrl(k) == ScholarBase \o <<"/", "scholar", "?", "q=", PathName(k)>>
ProfA == ProfData(<<"A">>, <<"ai">>, ScholarUrl(1))
ProfLowerA == ProfData(<<"a">>, <<"AI">>, ScholarUrl(2))
ProfTheory == ProfData(<<"b">>, <<"theory">>, ScholarUrl(3))
ProfBadUrl == ProfData(<<"B">>, <<"nlp">>, BadUrl(4))
ProfNoSubfield == ProfData(<<"b">>, << >>, ScholarUrl(5))
ProfNoUrl == ProfData(<<"b">>, <<"ir">>, << >>)
RosterBlocks ==
    { << >>, <<ProfA>>, <<ProfLowerA, ProfA>>, <<ProfA, ProfA>>, <<ProfTheory, ProfA>>,
      <<ProfBadUrl>>, <<ProfBadUrl, ProfA>>, <<ProfLowerA, ProfBadUrl>>,
      <<ProfNoSubfield, ProfA>>, <<ProfNoUrl>> }
BlockPairs(entries) == [k \in DOMAIN entries |-> <<<<"prof", ToString(k)>>, entries[k]>>]
RosterVar == "profBySchool_normalized"
RosterScripts ==
    { Declaration(RosterVar, ObjV(<< <<<<"a">>, ObjV(BlockPairs(b))>> >>)) \o ExportClause(RosterVar) :
        b \in RosterBlocks }
    \cup { Declaration("profBySchool", ObjV(<< >>)) }
GsPages ==
    { EmptyHtml,
      [blocks |-> << [result |-> TRUE, href |-> <<"/", "p0">>], ResultCard(1) >>,
       header |-> <<"7", " ", "results">>, empty |-> FALSE],
      [blocks |-> << ResultCard(1), [result |-> TRUE, href |-> <<"citations">>] >>,
       header |-> None, empty |-> FALSE] }
Docs ==
    { [title |-> <<"T", ":">>, body |-> "doc1"],
      [title |-> <<" ", "T", "/", " ">>, body |-> "doc2"],
      [title |-> None, body |-> "doc3"] }
EmptyFs == [path \in {} |-> ""]
EarlierPath == <<<<"a", "_", "A">>, <<"T", "_", ".txt">>>>
InitialFileSystems == {EmptyFs, [path \in {EarlierPath} |-> "earlier"]}

\* A professor of `out["professors"]`: the record of the filter and what the
\* later loops add to it.
ProfessorOf(record) ==
    [name |-> record.name, subfield |-> record.subfield, gs |-> record.gs,
     fetched |-> FALSE, gs_results_2025 |-> EmptyHtml,
     extracted |-> FALSE, gs_urls_2025 |-> << >>]

\* The record of one call of fetch_url by main: who asked, the URL, whether
\* it returned, and the text of a document it returned ("" otherwise).
LogEntry(kind, i, j, url, ok, text) ==
    [kind |-> kind, prof |-> i, idx |-> j, url |-> url, ok |-> ok, text |-> text]

MainInit ==
    /\ pc = "match"
    /\ prof_i = 0
    /\ url_j = 0
    /\ error = ""
    /\ query \in MainQueries
    /\ matched_university = None
    /\ professors = << >>
    /\ fetch_log = << >>
    /\ warnings = << >>
    /\ dirs = {}
    /\ fs \in InitialFileSystems
    /\ saved = << >>
    /\ json_written = FALSE
    /\ FetchIdle /\ MatchIdle /\ LinksIdle /\ LoadIdle /\ FilterIdle

otherVars == <<fetchVars, matchVars, linkVars, loadVars, filterVars>>

\* An exception leaves main.
Abort(exc) ==
    /\ pc' = "aborted"
    /\ error' = exc
    /\ UNCHANGED <<prof_i, url_j>>

\* Where the run stands after the roster is loaded, after a professor of the
\* first loop (lines 265-270), of the second (274-276), and after a URL of
\* the third (282-309): <<pc, prof_i, url_j>>.
AfterRoster(profs) ==
    IF profs = << >> THEN <<"write_json", 0, 0>> ELSE <<"fetch_gs", 1, 0>>
AfterScholar(profs, i) ==
    IF i < Len(profs) THEN <<"fetch_gs", i + 1, 0>> ELSE <<"extract", 1, 0>>
AfterExtract(profs, i) ==
    IF i < Len(profs) THEN <<"extract", i + 1, 0>> ELSE <<"harvest", 1, 0>>
AfterUrl(profs, i, j) ==
    IF j < Len(profs[i].gs_urls_2025) THEN <<"harvest", i, j + 1>>
    ELSE IF i < Len(profs) THEN <<"harvest", i + 1, 0>>
    ELSE <<"write_json", 0, 0>>
Goto(pos) == pc' = pos[1] /\ prof_i' = pos[2] /\ url_j' = pos[3]

\* Line 243, fetch_url(BASE_URL) fails (line 138).
RankingsFetchFails ==
    /\ pc = "match"
    /\ fetch_log' = Append(fetch_log, LogEntry("rankings", 0, 0, BASE_URL, FALSE, ""))
    /\ Abort("HTTPError")
    /\ UNCHANGED <<query, matched_university, professors, warnings, dirs, fs, saved,
                   json_written>>
    /\ UNCHANGED otherVars

\* Lines 243-248: the rankings page is fetched and holds `table`.
FindUniversity ==
    /\ pc = "match"
    /\ \E table \in MainTables :
         LET best == BestOf(SortDesc(Scored(UniversitiesOf(table), query)))
         IN  IF best[1] = None
             THEN /\ pc' = "nomatch"                      \* lines 244-246
                  /\ UNCHANGED matched_university
             ELSE /\ pc' = "roster"
                  /\ matched_university' = best[1]
    /\ fetch_log' = Append(fetch_log, LogEntry("rankings", 0, 0, BASE_URL, TRUE, ""))
    /\ UNCHANGED <<prof_i, url_j, error, query, professors, warnings, dirs, fs, saved,
                   json_written>>
    /\ UNCHANGED otherVars

\* Line 251, fetch_url(PROFBYSCHOOL_URL) fails (line 191).
RosterFetchFails ==
    /\ pc = "roster"
    /\ fetch_log' = Append(fetch_log, LogEntry("roster", 0, 0, PROFBYSCHOOL_URL, FALSE, ""))
    /\ Abort("HTTPError")
    /\ UNCHANGED <<query, matched_university, professors, warnings, dirs, fs, saved,
                   json_written>>
    /\ UNCHANGED otherVars

\* Lines 251-263: the script is fetched, loaded and filtered.
LoadRoster ==
    /\ pc = "roster"
    /\ fetch_log' = Append(fetch_log, LogEntry("roster", 0, 0, PROFBYSCHOOL_URL, TRUE, ""))
    /\ \E script \in RosterScripts :
         LET loaded == load_js_object(script, RosterVar)
         IN  IF ~loaded.ok
             THEN Abort("JSONDecodeError") /\ UNCHANGED professors
             ELSE LET r == extract_professors(loaded.val, matched_university)
                  IN  IF r.raised # ""
                      THEN Abort(r.raised) /\ UNCHANGED professors
                      ELSE /\ professors' = [k \in DOMAIN r.val |-> ProfessorOf(r.val[k])]
                           /\ Goto(AfterRoster(professors'))
                           /\ UNCHANGED error
    /\ UNCHANGED <<query, matched_university, warnings, dirs, fs, saved, json_written>>
    /\ UNCHANGED otherVars

\* Lines 266-269: the search URL is None (AttributeError of line 267) or has
\* no "as_ylo=" (the Exception of line 269).
ScholarUrlRejected ==
    /\ pc = "fetch_gs"
    /\ LET gs == professors[prof_i].gs
       IN  \/ /\ gs.t # "str"
              /\ Abort("AttributeError")
           \/ /\ gs.t = "str"
              /\ UrlNotReplaced(gs.v, ReplaceYear(gs.v))
              /\ Abort("Exception")
    /\ UNCHANGED <<query, matched_university, professors, fetch_log, warnings, dirs, fs,
                   saved, json_written>>
    /\ UNCHANGED otherVars

ScholarUrlOk ==
    /\ pc = "fetch_gs"
    /\ professors[prof_i].gs.t = "str"
    /\ ~UrlNotReplaced(professors[prof_i].gs.v, ReplaceYear(professors[prof_i].gs.v))

\* Line 270, fetch_url(gs_url_2025) fails.
ScholarFetchFails ==
    /\ ScholarUrlOk
    /\ fetch_log' = Append(fetch_log,
          LogEntry("scholar", prof_i, 0, ReplaceYear(professors[prof_i].gs.v), FALSE, ""))
    /\ IF Propagates("scholar")
       THEN Abort("HTTPError")
       ELSE Goto(AfterScholar(professors, prof_i)) /\ UNCHANGED error
    /\ UNCHANGED <<query, matched_university, professors, warnings, dirs, fs, saved,
                   json_written>>
    /\ UNCHANGED otherVars

\* Line 270, the results page of the professor is fetched.
ScholarFetched ==
    /\ ScholarUrlOk
    /\ fetch_log' = Append(fetch_log,
          LogEntry("scholar", prof_i, 0, ReplaceYear(professors[prof_i].gs.v), TRUE, ""))
    /\ \E page \in GsPages :
         professors' = [professors EXCEPT ![prof_i].fetched = TRUE,
                                          ![prof_i].gs_results_2025 = page]
    /\ Goto(AfterScholar(professors, prof_i))
    /\ UNCHANGED <<error, query, matched_university, warnings, dirs, fs, saved,
                   json_written>>
    /\ UNCHANGED otherVars

\* Lines 274-276 for one professor.
ExtractLinks ==
    /\ pc = "extract"
    /\ LET page == professors[prof_i].gs_results_2025
       IN  professors' = [professors EXCEPT
              ![prof_i].extracted = TRUE,
              ![prof_i].gs_urls_2025 = IF page.empty THEN << >> ELSE LinksOf(page.blocks)]
    /\ Goto(AfterExtract(professors, prof_i))
    /\ UNCHANGED <<error, query, matched_university, fetch_log, warnings, dirs, fs, saved,
                   json_written>>
    /\ UNCHANGED otherVars

\* Lines 283-285: the directory of the professor is made.
HarvestMkdir ==
    /\ pc = "harvest" /\ url_j = 0
    /\ dirs' = dirs \cup {ProfDirOf(matched_university, professors[prof_i])}
    /\ Goto(AfterUrl(professors, prof_i, 0))
    /\ UNCHANGED <<error, query, matched_university, professors, fetch_log, warnings, fs,
                   saved, json_written>>
    /\ UNCHANGED otherVars

CurrentUrl == professors[prof_i].gs_urls_2025[url_j]

\* Lines 288-292: fetch_url(url) fails; a URL without a scheme always does.
HarvestFetchFails ==
    /\ pc = "harvest" /\ url_j > 0
    /\ fetch_log' = Append(fetch_log, LogEntry("doc", prof_i, url_j, CurrentUrl, FALSE, ""))
    /\ IF Propagates("doc")
       THEN Abort("HTTPError") /\ UNCHANGED warnings
       ELSE /\ warnings' = Append(warnings, <<"failed to fetch", CurrentUrl>>)
            /\ Goto(AfterUrl(professors, prof_i, url_j))
            /\ UNCHANGED error
    /\ UNCHANGED <<query, matched_university, professors, dirs, fs, saved, json_written>>
    /\ UNCHANGED otherVars

\* Lines 289-309: the document is fetched; it is written unless its file
\* exists.  A write_text that fails leaves no file or a truncated one.
HarvestDocument ==
    /\ pc = "harvest" /\ url_j > 0
    /\ IsAbsolute(CurrentUrl)
    /\ \E doc \in Docs :
         LET file_path == <<ProfDirOf(matched_university, professors[prof_i]),
                            FileNameOf(CurrentUrl, doc)>>
         IN  /\ fetch_log' = Append(fetch_log,
                    LogEntry("doc", prof_i, url_j, CurrentUrl, TRUE, doc.body))
             /\ IF FileExists(fs, file_path)
                THEN /\ warnings' = Append(warnings, <<"file already exists", file_path>>)
                     /\ UNCHANGED <<fs, saved>>
                ELSE \/ /\ fs' = [path \in DOMAIN fs \cup {file_path} |->
                                    IF path = file_path THEN doc.body ELSE fs[path]]
                        /\ saved' = Append(saved, [path |-> file_path, content |-> doc.body,
                                                   prof |-> prof_i, idx |-> url_j])
                        /\ UNCHANGED warnings
                     \/ /\ warnings' = Append(warnings, <<"failed to write", file_path>>)
                        /\ \/ UNCHANGED fs
                           \/ fs' = [path \in DOMAIN fs \cup {file_path} |->
                                       IF path = file_path THEN "truncated" ELSE fs[path]]
                        /\ UNCHANGED saved
    /\ Goto(AfterUrl(professors, prof_i, url_j))
    /\ UNCHANGED <<error, query, matched_university, professors, dirs, json_written>>
    /\ UNCHANGED otherVars

\* Lines 311-313.
WriteJson ==
    /\ pc = "write_json"
    /\ json_written' = TRUE
    /\ pc' = "done"
    /\ UNCHANGED <<prof_i, url_j, error, query, matched_university, professors, fetch_log,
                   warnings, dirs, fs, saved>>
    /\ UNCHANGED otherVars

Next ==
    \/ RankingsFetchFails
    \/ FindUniversity
    \/ RosterFetchFails
    \/ LoadRoster
    \/ ScholarUrlRejected
    \/ ScholarFetchFails
    \/ ScholarFetched
    \/ ExtractLinks
    \/ HarvestMkdir
    \/ HarvestFetchFails
    \/ HarvestDocument
    \/ WriteJson

Spec == MainInit /\ [][Next]_vars
\* A fetch returns or raises and a write ends: the run goes on until it ends.
FairSpec == Spec /\ WF_vars(Next)

(***************************************************************************)
(* Properties of main                                                      *)
(***************************************************************************)
DocFetches == {k \in DOMAIN fetch_log : fetch_log[k].kind = "doc"}
FailedDocFetches == {k \in DocFetches : ~fetch_log[k].ok}
TopLevelFailures ==
    {k \in DOMAIN fetch_log :
        fetch_log[k].kind \in {"rankings", "roster", "scholar"} /\ ~fetch_log[k].ok}
Attempted(i, j) ==
    \E k \in DocFetches : fetch_log[k].prof = i /\ fetch_log[k].idx = j
SavedFor(i, j) == {k \in DOMAIN saved : saved[k].prof = i /\ saved[k].idx = j}
FirstSave(path) == First({k \in DOMAIN saved : saved[k].path = path})

\* C2: a step of the run leaves every file that exists as it is -- a save
\* whose path exists is skipped, be the file of this run or of an earlier
\* one -- so a path that was written holds what its first successful write
\* put there, and no path is written with success twice.
FirstWriteStays ==
    /\ \A k \in DOMAIN saved :
         /\ saved[k].path \in DOMAIN fs
         /\ fs[saved[k].path] = saved[FirstSave(saved[k].path)].content
         /\ FirstSave(saved[k].path) = k
    /\ \A k \in DOMAIN warnings :
         warnings[k][1] = "file already exists" => warnings[k][2] \in DOMAIN fs
ExistingFilesKept ==
    /\ \A path \in DOMAIN fs : path \in DOMAIN fs' /\ fs'[path] = fs[path]
    /\ Len(warnings') > Len(warnings) /\ warnings'[Len(warnings')][1] = "file already exists"
         => fs' = fs /\ saved' = saved /\ warnings'[Len(warnings')][2] \in DOMAIN fs
NeverOverwrites == []FirstWriteStays /\ [][ExistingFilesKept]_vars
\* Two URLs of one professor whose pages have different texts and the same
\* sanitized title: the first is saved, the second is skipped.
SkippedSecondSave ==
    \E k \in DOMAIN saved : \E w \in DOMAIN warnings : \E e \in DocFetches :
        /\ warnings[w] = <<"file already exists", saved[k].path>>
        /\ fetch_log[e].ok
        /\ fetch_log[e].prof = saved[k].prof
        /\ fetch_log[e].idx > saved[k].idx
        /\ SavedFor(fetch_log[e].prof, fetch_log[e].idx) = {}
        /\ fetch_log[e].text # saved[k].content
        /\ fs[saved[k].path] = saved[k].content

\* C3: the step of a failed fetch of a harvested URL writes no file and goes
\* on to the next URL; no file is ever saved for that URL; once the loop is
\* over every URL of every professor was attempted; and a run in which such
\* a fetch failed goes on to write professors.json.
FailedDocFetchStep ==
    /\ Len(fetch_log') = Len(fetch_log) + 1
    /\ fetch_log'[Len(fetch_log')].kind = "doc"
    /\ ~fetch_log'[Len(fetch_log')].ok
DocFailureSkipped ==
    FailedDocFetchStep =>
        /\ fs' = fs /\ saved' = saved
        /\ error' = "" /\ pc' \in {"harvest", "write_json"}
        /\ <<pc', prof_i', url_j'>> = AfterUrl(professors, prof_i, url_j)
AllUrlsAttempted ==
    /\ \A k \in FailedDocFetches : SavedFor(fetch_log[k].prof, fetch_log[k].idx) = {}
    /\ pc \in {"write_json", "done"} =>
         \A i \in DOMAIN professors : \A j \in DOMAIN professors[i].gs_urls_2025 :
             Attempted(i, j)
    /\ pc = "harvest" =>
         \A i \in DOMAIN professors : \A j \in DOMAIN professors[i].gs_urls_2025 :
             (i < prof_i \/ (i = prof_i /\ j < url_j)) => Attempted(i, j)
LinkFailureContinues ==
    /\ []AllUrlsAttempted
    /\ [][DocFailureSkipped]_vars
    /\ (FailedDocFetches # {}) ~> json_written
\* The first URL of the first professor failed; the second URL of that
\* professor and a URL of the next were saved, and professors.json written.
ContinuedAfterFailure ==
    /\ json_written
    /\ \E k \in FailedDocFetches :
         /\ fetch_log[k].prof = 1 /\ fetch_log[k].idx = 1
         /\ IsAbsolute(fetch_log[k].url)
    /\ SavedFor(1, 2) # {}
    /\ \E j \in 1..2 : SavedFor(2, j) # {}

\* C9: a failed fetch of the rankings page, of the roster script or of a
\* results page, and a roster that does not parse, end the run: it is the
\* last fetch, nothing was saved, professors.json is not written, and no
\* step follows; professors.json is written by the last step of a run that
\* fetched the page of every professor and went through all their links.
TopLevelFailureEnds ==
    /\ \A k \in TopLevelFailures :
         /\ k = Len(fetch_log)
         /\ pc = "aborted" /\ error = "HTTPError"
    /\ error # "" <=> pc = "aborted"
    /\ pc = "aborted" =>
         /\ ~json_written
         /\ saved = << >> /\ dirs = {} /\ DocFetches = {}
    /\ json_written =>
         /\ pc = "done"
         /\ \A i \in DOMAIN professors :
              /\ professors[i].fetched /\ professors[i].extracted
              /\ \E k \in DOMAIN fetch_log :
                   fetch_log[k].kind = "scholar" /\ fetch_log[k].prof = i /\ fetch_log[k].ok
              /\ \A j \in DOMAIN professors[i].gs_urls_2025 : Attempted(i, j)
NoStepAfterEnd ==
    /\ pc # "aborted" /\ ~json_written
    /\ json_written' => pc' = "done" /\ fetch_log' = fetch_log /\ fs' = fs /\ saved' = saved
    /\ pc' = "aborted" => fs' = fs /\ saved' = saved /\ ~json_written'
FailuresTerminate == []TopLevelFailureEnds /\ [][NoStepAfterEnd]_vars
\* The fetch of the results page of the second professor failed after that
\* of the first had returned.
SecondScholarFetchFailed ==
    /\ pc = "aborted"
    /\ Len(professors) = 2 /\ prof_i = 2
    /\ professors[1].fetched
    /\ fetch_log[Len(fetch_log)].kind = "scholar"
    /\ ~fetch_log[Len(fetch_log)].ok
    /\ fetch_log[Len(fetch_log)].prof = 2

\* C10: the three loops run one after the other over the whole roster; a
\* results page is fetched from the search URL of its professor with
\* "as_ylo=" replaced by "as_ylo=2025" and from nothing else; with a
\* professor whose search URL has no "as_ylo=" the run never gets past that
\* professor: her page is not fetched, the only step there is the exception,
\* no links are extracted for anyone, nothing is saved and professors.json
\* is not written.
LacksYear(i) ==
    professors[i].gs.t # "str" \/ ~Contains(professors[i].gs.v, <<"as_ylo=">>)
BadProfessors == {i \in DOMAIN professors : LacksYear(i)}
PhasesInOrder ==
    /\ pc = "fetch_gs" =>
         \A i \in DOMAIN professors :
             /\ professors[i].fetched => i < prof_i
             /\ ~professors[i].extracted
    /\ pc = "extract" =>
         \A i \in DOMAIN professors :
             /\ professors[i].fetched
             /\ professors[i].extracted <=> i < prof_i
    /\ pc \in {"harvest", "write_json", "done"} =>
         \A i \in DOMAIN professors : professors[i].fetched /\ professors[i].extracted
    /\ pc \in {"fetch_gs", "extract"} => DocFetches = {} /\ saved = << >> /\ dirs = {}
    /\ (\E i \in DOMAIN professors : professors[i].extracted) =>
         \A i \in DOMAIN professors : professors[i].fetched
    /\ DocFetches # {} => \A i \in DOMAIN professors : professors[i].extracted
FetchedFromYearUrl ==
    \A k \in DOMAIN fetch_log : fetch_log[k].kind = "scholar" =>
        LET gs == professors[fetch_log[k].prof].gs
        IN  /\ gs.t = "str"
            /\ Contains(gs.v, <<"as_ylo=">>)
            /\ fetch_log[k].url = ReplaceYear(gs.v)
            /\ Contains(fetch_log[k].url, <<"as_ylo=", "2025">>)
            /\ (fetch_log[k].ok <=> professors[fetch_log[k].prof].fetched)
StopsAtBadUrl ==
    BadProfessors # {} =>
        /\ pc \in {"fetch_gs", "aborted"}
        /\ prof_i <= First(BadProfessors)
        /\ \A i \in DOMAIN professors : ~professors[i].extracted /\ professors[i].gs_urls_2025 = << >>
        /\ saved = << >> /\ dirs = {} /\ DocFetches = {}
        /\ ~json_written
RejectedAtBadUrl ==
    pc = "fetch_gs" /\ LacksYear(prof_i) =>
        /\ pc' = "aborted" /\ error' \in {"Exception", "AttributeError"}
        /\ prof_i' = prof_i
        /\ fetch_log' = fetch_log /\ professors' = professors
PhasesAndYearUrl ==
    /\ [](PhasesInOrder /\ FetchedFromYearUrl /\ StopsAtBadUrl)
    /\ [][RejectedAtBadUrl]_vars
\* The run stopped at the second professor, whose URL has no "as_ylo=", with
\* the page of the first fetched.
AbortedAtSecondProfessor ==
    /\ pc = "aborted" /\ error = "Exception"
    /\ prof_i = 2
    /\ professors[1].fetched /\ ~professors[1].extracted
    /\ professors[2].gs.t = "str" /\ LacksYear(2)
    /\ \A k \in DOMAIN fetch_log : fetch_log[k].prof # 2
====
